---- MODULE Spec2Model ----
(***************************************************************************)
(* State-machine model of the multi-agent orchestrator graph               *)
(* (src/src/agents/orchestrator/graph.py) and of the sub-workflows it      *)
(* dispatches to, as seen from the orchestrator's conversation state.      *)
(*                                                                         *)
(* Texts (router output, message contents, diagram bodies) are sequences   *)
(* of tokens; Python's str.split / strip / upper / "in" are computed on    *)
(* those sequences.  Python dicts are records holding exactly the keys     *)
(* the code puts in them, so a missing key is a missing record field.      *)
(***************************************************************************)
EXTENDS Integers, Sequences, FiniteSets, TLC

VARIABLES
    messages,             \* AgentState.messages (add_messages reducer)
    summary,              \* AgentState.summary
    routing_decision,     \* AgentState.routing_decision (raw router text)
    research_response,    \* AgentState.research_response
    rag_response,         \* AgentState.rag_response
    summarizer_response,  \* AgentState.summarizer_response
    structured_response,  \* AgentState.structured_response
    next,                 \* "next" value last returned by route_message
    router_response,      \* Gateway text the router got in the current turn
    pc,                   \* node about to run in the current turn
    turn,                 \* number of turns started on the thread
    nextId,               \* next fresh message id
    trace,                \* nodes completed in the current turn, in order
    raised,               \* node whose exception aborted the current turn
    turnHuman,            \* id of the human message that opened the turn
    startSlots,           \* the four response slots when the turn started
    sub                   \* the sub-workflow run in progress, node by node

vars == <<messages, summary, routing_decision, research_response, rag_response,
          summarizer_response, structured_response, next, router_response, pc,
          turn, nextId, trace, raised, turnHuman, startSlots, sub>>

----------------------------------------------------------------------------
(* Bounds of the model *)

MaxTurns == 2
MaxChunks == 2
MaxToolRounds == 1
FnPrefixMax == 10
FnTailMax == 2
MaxFnTurns == 4

(* Program constants *)

SummarizeThreshold == 10
KeepLast == 2

----------------------------------------------------------------------------
(* Python values *)

None == [py_none |-> TRUE]

\* Optional texts: None and "" are both the empty token sequence (the code
\* only ever tests them for truthiness).
NoText == <<>>

Get(d, k, default) == IF k \in DOMAIN d THEN d[k] ELSE default

\* What `await model.ainvoke(...)` gives when the Gateway call fails: the
\* call raises, so no text comes back; the token stands for the exception.
GatewayError == <<"<gateway error>">>

HDR == "[Selected Route]"
NL == "\n"
SP == " "

----------------------------------------------------------------------------
(* str operations on token sequences *)

IsAt(text, sep, i) ==
    /\ i + Len(sep) - 1 <= Len(text)
    /\ \A j \in 1..Len(sep) : text[i + j - 1] = sep[j]

Find(text, sep) ==
    IF \E i \in 1..Len(text) : IsAt(text, sep, i)
    THEN CHOOSE i \in 1..Len(text) :
            IsAt(text, sep, i) /\ \A k \in 1..(i - 1) : ~IsAt(text, sep, k)
    ELSE 0

Contains(text, sep) == Find(text, sep) # 0

RECURSIVE split(_, _)
split(text, sep) ==
    LET i == Find(text, sep) IN
    IF i = 0 THEN <<text>>
    ELSE <<SubSeq(text, 1, i - 1)>>
            \o split(SubSeq(text, i + Len(sep), Len(text)), sep)

RECURSIVE lstrip(_)
lstrip(text) ==
    IF text # <<>> /\ Head(text) \in {SP, NL} THEN lstrip(Tail(text)) ELSE text

RECURSIVE rstrip(_)
rstrip(text) ==
    IF text # <<>> /\ text[Len(text)] \in {SP, NL}
    THEN rstrip(SubSeq(text, 1, Len(text) - 1))
    ELSE text

strip(text) == rstrip(lstrip(text))

UpperTok(t) ==
    CASE t = "rag" -> "RAG"
      [] t = "answer" -> "ANSWER"
      [] t = "Summarize" -> "SUMMARIZE"
      [] t = "foo" -> "FOO"
      [] OTHER -> t

upper(text) == [i \in 1..Len(text) |-> UpperTok(text[i])]

----------------------------------------------------------------------------
(* Messages and the add_messages reducer of MessagesState *)

Msg(id, type, content) == [id |-> id, type |-> type, content |-> content]

\* Updates a node returns for "messages": a new message (id 0: no id yet)
\* or RemoveMessage(id).
NewMessage(type, content) ==
    [op |-> "put", id |-> 0, type |-> type, content |-> content]

HumanMessage(content) == NewMessage("human", content)
AIMessage(content) == NewMessage("ai", content)
SystemMessage(content) == NewMessage("system", content)
ToolMessage(content) == NewMessage("tool", content)

RemoveMessage(id) == [op |-> "remove", id |-> id, type |-> "remove", content |-> <<>>]

NewCount(right) == Cardinality({j \in 1..Len(right) : right[j].id = 0})

AssignIds(right, nid) ==
    [i \in 1..Len(right) |->
        IF right[i].id = 0
        THEN [right[i] EXCEPT !.id = nid + Cardinality({j \in 1..(i - 1) : right[j].id = 0})]
        ELSE right[i]]

IndexOfId(msgs, id) ==
    IF \E i \in 1..Len(msgs) : msgs[i].id = id
    THEN CHOOSE i \in 1..Len(msgs) : msgs[i].id = id
    ELSE 0

NotRemoved(msgs, removed) ==
    LET keep == {i \in 1..Len(msgs) : msgs[i].id \notin removed}
        Nth(k) == CHOOSE i \in keep : Cardinality({j \in keep : j < i}) = k - 1
    IN  [k \in 1..Cardinality(keep) |-> msgs[Nth(k)]]

RECURSIVE merge(_, _, _)
merge(merged, removed, right) ==
    IF right = <<>>
    THEN [ok |-> TRUE, msgs |-> NotRemoved(merged, removed)]
    ELSE LET m == Head(right)
             idx == IndexOfId(merged, m.id)
         IN  IF idx # 0
             THEN IF m.op = "remove"
                  THEN merge(merged, removed \cup {m.id}, Tail(right))
                  ELSE merge([merged EXCEPT ![idx] = Msg(m.id, m.type, m.content)],
                             removed \ {m.id}, Tail(right))
             ELSE IF m.op = "remove"
                  THEN [ok |-> FALSE, msgs |-> merged]
                  ELSE merge(Append(merged, Msg(m.id, m.type, m.content)),
                             removed, Tail(right))

\* add_messages(left, right): ids are given to the new messages in order,
\* a known id replaces in place, an unknown id appends, RemoveMessage deletes.
add_messages(left, right, nid) == merge(left, {}, AssignIds(right, nid))

----------------------------------------------------------------------------
(* Router *)

Labels == {"ANSWER", "RESEARCH", "RAG", "SUMMARIZE", "DIAGRAM"}

\* text.split("[Selected Route]")[1].split("\n")[1].strip().upper()
\* ok = FALSE is the IndexError of either subscript.
selected_route(text) ==
    LET a == split(text, <<HDR>>) IN
    IF Len(a) < 2 THEN [ok |-> FALSE, label |-> <<>>]
    ELSE LET b == split(a[2], <<NL>>) IN
         IF Len(b) < 2 THEN [ok |-> FALSE, label |-> <<>>]
         ELSE [ok |-> TRUE, label |-> upper(strip(b[2]))]

route_mapping(label) ==
    CASE label = <<"ANSWER">> -> "answer"
      [] label = <<"RESEARCH">> -> "research"
      [] label = <<"RAG">> -> "rag"
      [] label = <<"SUMMARIZE">> -> "doc_summarize"
      [] label = <<"DIAGRAM">> -> "diagram_analyze"
      [] OTHER -> "research"

\* route_message on the Gateway's response text `response`.
\* stores = FALSE: the returned dict has no "routing_decision" key.
\* error: the exception that leaves the node ("none" when it returns).
route_message(msgs, response) ==
    IF msgs = <<>>
    THEN [raised |-> FALSE, error |-> "none", stores |-> FALSE,
          routing_decision |-> <<>>, next |-> "research"]
    ELSE IF response = GatewayError
    THEN [raised |-> TRUE, error |-> "GatewayError", stores |-> FALSE,
          routing_decision |-> <<>>, next |-> "none"]
    ELSE LET p == selected_route(response) IN
         IF ~p.ok
         THEN [raised |-> TRUE, error |-> "IndexError", stores |-> FALSE,
               routing_decision |-> <<>>, next |-> "none"]
         ELSE [raised |-> FALSE, error |-> "none", stores |-> TRUE,
               routing_decision |-> response, next |-> route_mapping(p.label)]

\* the dispatch table without the SUMMARIZE and DIAGRAM entries
route_condition_three_labels(rd) ==
    IF rd = <<>> THEN "research"
    ELSE LET p == selected_route(rd) IN
         IF ~p.ok THEN "research"
         ELSE CASE p.label = <<"ANSWER">> -> "answer"
                [] p.label = <<"RAG">> -> "rag"
                [] OTHER -> "research"

route_condition(rd) ==
    IF rd = <<>> THEN "research"
    ELSE LET p == selected_route(rd) IN
         IF ~p.ok THEN "research"
         ELSE IF p.label = <<"SUMMARIZE">> THEN "doc_summarize"
         ELSE route_mapping(p.label)

\* the threshold test off by one
should_summarize_at_threshold(msgs) ==
    IF Len(msgs) >= SummarizeThreshold
    THEN msgs[Len(msgs)].type = "ai"
    ELSE FALSE

should_summarize(msgs) ==
    IF Len(msgs) > SummarizeThreshold
    THEN IF msgs[Len(msgs)].type = "system" THEN FALSE
         ELSE msgs[Len(msgs)].type = "ai"
    ELSE FALSE

\* keeping one message instead of the last exchange
summarize_conversation_keep_one(msgs, response) ==
    LET messages_to_delete ==
            IF Len(msgs) > 1 THEN SubSeq(msgs, 1, Len(msgs) - 1) ELSE <<>>
        delete_messages ==
            [i \in 1..Len(messages_to_delete) |-> RemoveMessage(messages_to_delete[i].id)]
        summary_msg == SystemMessage(<<"Previous conversation summary:">> \o response)
    IN  [summary |-> response, messages |-> delete_messages \o <<summary_msg>>]

\* summarize_conversation: the update it returns, given the Gateway's text.
summarize_conversation_keep_list(msgs, response) ==
    LET kept_messages ==
            IF Len(msgs) >= KeepLast THEN SubSeq(msgs, Len(msgs) - KeepLast + 1, Len(msgs))
            ELSE msgs
        summary_msg == SystemMessage(<<"Previous conversation summary:">> \o response)
        kept == [i \in 1..Len(kept_messages) |->
                    [op |-> "put", id |-> kept_messages[i].id,
                     type |-> kept_messages[i].type,
                     content |-> kept_messages[i].content]]
    IN  [summary |-> response, messages |-> <<summary_msg>> \o kept]

summarize_conversation(msgs, response) ==
    LET messages_to_delete ==
            IF Len(msgs) > KeepLast THEN SubSeq(msgs, 1, Len(msgs) - KeepLast) ELSE <<>>
        delete_messages ==
            [i \in 1..Len(messages_to_delete) |-> RemoveMessage(messages_to_delete[i].id)]
        summary_msg == SystemMessage(<<"Previous conversation summary:">> \o response)
    IN  [summary |-> response, messages |-> delete_messages \o <<summary_msg>>]

----------------------------------------------------------------------------
(* Texts the collaborators can return in the model *)

\* the three-backtick code fence
TICKS == "<fence>"
FileNames == {"notes.md"}
HumanTexts == {<<"hello">>, <<"process", SP, "notes.md">>}

\* the format the router prompt asks for
WellFormed(w) == <<"[Analysis]", NL, HDR, NL, w, NL, NL, "[Confidence]">>

\* Gateway answers to the router prompt: the five labels in the asked format
\* (ANSWER in lower case and padded), an unrecognized label, and two answers
\* from which no label can be read.
RouterResponses ==
    {WellFormed(w) : w \in Labels \ {"ANSWER"}}
        \cup {<<HDR, NL, SP, "answer", SP, NL>>,
              <<HDR, NL, "FOO", NL>>,
              <<"RESEARCH">>,
              <<HDR, SP, "ANSWER">>}

AnswerTexts == {<<"Hello!">>}
FindingsTexts == {<<"findings">>}
AnalysisTexts == {<<"[Answer]", "facts", "[Sources]", "notes.md">>, <<"not found">>}
SummaryTexts == {<<"earlier turns in short">>}
FinalSummaryTexts == {<<"final">>}
DiagramTexts ==
    {<<TICKS, "mermaid", NL, "graph", NL, TICKS>>,
     <<TICKS, "mermaid", SP, "graph", TICKS>>}

\* re.search(r"[\w-]+\.(md|txt|py|json|yaml|yml)", text)
file_match(text) == \E i \in 1..Len(text) : text[i] \in FileNames

\* "research" in text.lower()
mentions_research(text) ==
    \E i \in 1..Len(text) :
        text[i] \in {"Here are the findings from my research:", "research"}

RECURSIVE join(_, _)
join(parts, by) ==
    IF Len(parts) = 1 THEN parts[1]
    ELSE parts[1] \o by \o join(Tail(parts), by)

replace(text, old, new) == join(split(text, old), new)

----------------------------------------------------------------------------
(* Synthesizer *)

synth_route(rd) ==
    LET p == selected_route(rd) IN IF p.ok THEN p.label ELSE <<>>

FallbackMessage ==
    AIMessage(<<"I encountered an unexpected state and cannot provide a proper response.">>)

DiagramFailureMessage ==
    AIMessage(<<"I apologize, but I was not able to generate a diagram for this request.",
                "1. Analyze the content",
                "2. Create a Mermaid.js diagram using the create_mermaid_diagram tool",
                "3. Save it using the save_graph tool">>)

Returns(update) == [raised |-> FALSE, messages |-> update]
Raises == [raised |-> TRUE, messages |-> <<>>]

LastHumanIdx(msgs) ==
    IF \E i \in 1..Len(msgs) : msgs[i].type = "human"
    THEN CHOOSE i \in 1..Len(msgs) :
            msgs[i].type = "human" /\ \A j \in (i + 1)..Len(msgs) : msgs[j].type # "human"
    ELSE 0

synth_rag(rag) ==
    LET source == rag.source
        document_status == rag.document_status
        rag_analysis == rag.rag_analysis
    IN  IF source = "process_document" /\ document_status # None
        THEN IF "metadata" \notin DOMAIN document_status
                    \/ "num_chunks" \notin DOMAIN document_status
             THEN Raises      \* KeyError
             ELSE Returns(<<AIMessage(
                    <<"Successfully processed document:",
                      Get(document_status.metadata, "source", "document"),
                      "- Number of chunks:", ToString(document_status.num_chunks),
                      "- Document type:",
                      Get(document_status.metadata, "type", "unknown")>>)>>)
        ELSE IF source = "answer_query" /\ rag_analysis # NoText
        THEN IF Contains(rag_analysis, <<"[Answer]">>)
             THEN Returns(<<AIMessage(
                    <<"Here is what I found in the document:">>
                      \o strip(replace(replace(rag_analysis, <<"[Answer]">>, <<>>),
                                       <<"[Sources]">>, <<NL, "Based on:">>)))>>)
             ELSE Returns(<<AIMessage(rag_analysis)>>)
        ELSE Returns(<<FallbackMessage>>)

\* the diagram case leaving the tool-call tail in place
synth_diagram_keep_tail(msgs, structured_output) ==
    IF LastHumanIdx(msgs) = 0
    THEN Returns(<<AIMessage(<<"No query found to process.">>)>>)
    ELSE IF structured_output # None /\ "diagram" \in DOMAIN structured_output
    THEN Returns(<<AIMessage(
            <<"The Mermaid.js diagram has been generated and saved to:",
              structured_output.filename>> \o structured_output.diagram)>>)
    ELSE Returns(<<DiagramFailureMessage>>)

synth_diagram(msgs, structured_output) ==
    LET current_human_idx == LastHumanIdx(msgs) IN
    IF current_human_idx = 0
    THEN Returns(<<AIMessage(<<"No query found to process.">>)>>)
    ELSE LET subsequent == SubSeq(msgs, current_human_idx + 1, Len(msgs))
             messages_to_delete ==
                [i \in 1..Len(subsequent) |-> RemoveMessage(subsequent[i].id)]
         IN  IF structured_output # None /\ "diagram" \in DOMAIN structured_output
             THEN LET d == structured_output.diagram IN
                  IF Contains(d, <<TICKS, "mermaid">>)
                  THEN LET a == split(d, <<TICKS, "mermaid", NL>>) IN
                       IF Len(a) < 2 THEN Raises      \* IndexError
                       ELSE Returns(messages_to_delete \o <<AIMessage(
                              <<"The Mermaid.js diagram has been generated and saved to:",
                                structured_output.filename>>
                                \o split(a[2], <<TICKS>>)[1])>>)
                  ELSE Returns(messages_to_delete \o <<AIMessage(
                              <<"The Mermaid.js diagram has been generated and saved to:",
                                structured_output.filename>> \o d)>>)
             ELSE Returns(messages_to_delete \o <<DiagramFailureMessage>>)

synth_summarize(response) ==
    Returns(<<AIMessage(<<"Here is the summary I generated:">> \o response.final_summary
                        \o <<"- Number of chunks processed:",
                             ToString(response.num_chunks)>>)>>)

\* synthesize_node, in the order of its cases; the RAG case falls through
\* to the final fallback when neither of its inner tests returns.
synthesize_node(rd, msgs, research, rag, summarizer, structured) ==
    LET route == synth_route(rd) IN
    IF route = <<"RAG">> /\ rag # None THEN synth_rag(rag)
    ELSE IF route = <<"RESEARCH">> /\ research # None /\ research.source = "researcher"
    THEN Returns(<<AIMessage(<<"Here are the findings from my research:">>
                               \o research.research_findings)>>)
    ELSE IF route = <<"DIAGRAM">> THEN synth_diagram(msgs, structured)
    ELSE IF route = <<"SUMMARIZE">> /\ summarizer # None THEN synth_summarize(summarizer)
    ELSE Returns(<<FallbackMessage>>)

----------------------------------------------------------------------------
(* Sub-workflows, by the record each leaves in the orchestrator's state *)

\* Research: extract_query -> {web_search, wiki_search} -> combine
combine_results(findings) == [research_findings |-> findings, source |-> "researcher"]

RAGResponse(document_status, rag_analysis, source) ==
    [document_status |-> document_status, rag_analysis |-> rag_analysis,
     source |-> source]

\* ingest_document
ingest_document(document, ok, n) ==
    IF ok
    THEN [status |-> "success", num_chunks |-> n, metadata |-> document.metadata]
    ELSE [status |-> "error", error |-> <<"ingest failed">>]

\* process_document_node asking about the preceding message before it looks
\* for a filename
rag_process_document_node_previous_first(msgs, in) ==
    LET last_message == msgs[Len(msgs)].content
        previous_message == IF Len(msgs) > 1 THEN msgs[Len(msgs) - 1].content ELSE NoText
    IN  IF msgs = <<>> THEN RAGResponse(None, NoText, "process_document")
        ELSE IF in.should_process /\ previous_message # NoText
        THEN RAGResponse(
                ingest_document(
                    [content |-> previous_message,
                     metadata |-> [type |-> "inline",
                                   source |-> IF mentions_research(previous_message)
                                              THEN "research_results" ELSE "chat",
                                   timestamp |-> "now"]],
                    in.ingest_ok, in.num_chunks),
                NoText, "process_document")
        ELSE IF file_match(last_message)
        THEN IF in.read_error
             THEN RAGResponse([error |-> <<"Could not read file">>], NoText,
                              "process_document")
             ELSE RAGResponse(
                    ingest_document(
                        [content |-> <<"file content">>,
                         metadata |-> [source |-> "notes.md", type |-> "documentation",
                                       extension |-> ".md"]],
                        in.ingest_ok, in.num_chunks),
                    NoText, "process_document")
        ELSE RAGResponse([error |-> <<"No valid file or content found to process">>],
                         NoText, "process_document")

\* RAG process_document_node; in: what read_file, the process check and
\* ingest_document answer.
rag_process_document_node(msgs, in) ==
    LET last_message == msgs[Len(msgs)].content
        previous_message == IF Len(msgs) > 1 THEN msgs[Len(msgs) - 1].content ELSE NoText
    IN  IF msgs = <<>> THEN RAGResponse(None, NoText, "process_document")
        ELSE IF file_match(last_message)
        THEN IF in.read_error
             THEN RAGResponse([error |-> <<"Could not read file">>], NoText,
                              "process_document")
             ELSE RAGResponse(
                    ingest_document(
                        [content |-> <<"file content">>,
                         metadata |-> [source |-> "notes.md", type |-> "documentation",
                                       extension |-> ".md"]],
                        in.ingest_ok, in.num_chunks),
                    NoText, "process_document")
        ELSE IF in.should_process /\ previous_message # NoText
        THEN RAGResponse(
                ingest_document(
                    [content |-> previous_message,
                     metadata |-> [type |-> "inline",
                                   source |-> IF mentions_research(previous_message)
                                              THEN "research_results" ELSE "chat",
                                   timestamp |-> "now"]],
                    in.ingest_ok, in.num_chunks),
                NoText, "process_document")
        ELSE RAGResponse([error |-> <<"No valid file or content found to process">>],
                         NoText, "process_document")

\* analyze_context_node: the analysis it leaves (response: the Gateway's text)
analyze_context_node(optimized_query, context, response) ==
    IF optimized_query = NoText \/ context = <<>>
    THEN <<"No context to analyze">>
    ELSE response

\* the short-circuit returning an empty record instead of the placeholder
answer_query_node_no_placeholder(optimized_query, analysis, response) ==
    IF optimized_query = NoText \/ analysis = NoText
    THEN RAGResponse(None, NoText, "answer_query")
    ELSE RAGResponse(None, response, "answer_query")

\* answer_query_node
answer_query_node(optimized_query, analysis, response) ==
    IF optimized_query = NoText \/ analysis = NoText
    THEN RAGResponse(None, <<"No analysis to generate answer from">>, "answer_query")
    ELSE RAGResponse(None, response, "answer_query")

\* optimize_query -> retrieve -> analyze_context -> answer_query
rag_query_path(in) ==
    answer_query_node(in.query, analyze_context_node(in.query, in.context, in.analysis),
                      in.answer)

\* the compiled RAG graph: is_document_processing picks the path
rag_graph(msgs, in) ==
    IF in.is_processing THEN rag_process_document_node(msgs, in) ELSE rag_query_path(in)

\* what the RAG graph's collaborators can answer: on the ingestion path only
\* the first four matter, on the query path only the last four
RagInputs ==
    [is_processing : {TRUE}, read_error : BOOLEAN, should_process : BOOLEAN,
     ingest_ok : BOOLEAN, num_chunks : {1},
     query : {NoText}, context : {<<>>}, analysis : {NoText}, answer : {NoText}]
    \cup
    [is_processing : {FALSE}, read_error : {FALSE}, should_process : {FALSE},
     ingest_ok : {FALSE}, num_chunks : {1},
     query : {NoText, <<"q">>}, context : {<<>>, <<"hit">>},
     analysis : {<<"relevant">>}, answer : AnalysisTexts]

\* Summarization process_document_node: document, chunks and final_summary
summarizer_process_document_node_rag_first(msgs, research, rag, in) ==
    LET failed(doc, err) == [document |-> doc, chunks |-> <<>>, final_summary |-> err]
        last_message == strip(msgs[Len(msgs)].content)
        chunked(doc) ==
            IF doc = NoText THEN failed(NoText, <<"Error: No content to summarize">>)
            ELSE IF in.chunk_error THEN failed(doc, <<"Error chunking document:">>)
            ELSE [document |-> doc,
                  chunks |-> [i \in 1..in.num_chunks |-> <<"chunk", ToString(i - 1)>>],
                  final_summary |-> NoText]
    IN  IF msgs = <<>> THEN failed(NoText, <<"Error: No document provided">>)
        ELSE IF rag # None THEN chunked(Get(rag, "rag_analysis", NoText))
        ELSE IF research # None THEN chunked(Get(research, "research_findings", NoText))
        ELSE IF file_match(last_message)
        THEN IF in.read_error THEN failed(NoText, <<"Error reading file:">>)
             ELSE chunked(in.file_content)
        ELSE chunked(last_message)

summarizer_process_document_node(msgs, research, rag, in) ==
    LET failed(doc, err) == [document |-> doc, chunks |-> <<>>, final_summary |-> err]
        last_message == strip(msgs[Len(msgs)].content)
        chunked(doc) ==
            IF doc = NoText THEN failed(NoText, <<"Error: No content to summarize">>)
            ELSE IF in.chunk_error THEN failed(doc, <<"Error chunking document:">>)
            ELSE [document |-> doc,
                  chunks |-> [i \in 1..in.num_chunks |-> <<"chunk", ToString(i - 1)>>],
                  final_summary |-> NoText]
    IN  IF msgs = <<>> THEN failed(NoText, <<"Error: No document provided">>)
        ELSE IF research # None THEN chunked(Get(research, "research_findings", NoText))
        ELSE IF rag # None THEN chunked(Get(rag, "rag_analysis", NoText))
        ELSE IF file_match(last_message)
        THEN IF in.read_error THEN failed(NoText, <<"Error reading file:">>)
             ELSE chunked(in.file_content)
        ELSE chunked(last_message)

\* summarize_chunk: the entry one branch adds to summaries
summarize_chunk(chunk_id) == <<"[Chunk", ToString(chunk_id), "]", "summary">>

\* combine_summaries
combine_summaries(summaries, response) ==
    IF summaries = <<>>
    THEN [chunk_summaries |-> <<>>, final_summary |-> <<"No summaries to combine">>,
          num_chunks |-> 0]
    ELSE [chunk_summaries |-> summaries, final_summary |-> response,
          num_chunks |-> Len(summaries)]

\* the compiled Summarization graph: distribute_chunks sends one branch per
\* chunk; with no chunk nothing is sent, no further node runs and the
\* summarizer_response that came in goes out unchanged.
summarizer_graph(msgs, research, rag, current, in) ==
    LET p == summarizer_process_document_node(msgs, research, rag, in) IN
    IF p.chunks = <<>> THEN current
    ELSE combine_summaries([i \in 1..Len(p.chunks) |-> summarize_chunk(i - 1)], in.final)

SummarizerInputs ==
    [read_error : BOOLEAN, file_content : {NoText, <<"file content">>},
     chunk_error : BOOLEAN, num_chunks : 1..MaxChunks, final : FinalSummaryTexts]

\* the diagram react agent: tool rounds, a final reply, and the structured
\* response it writes (None when no artifact came out)
diagram_messages(rounds) ==
    [i \in 1..(2 * rounds + 1) |->
        IF i = 2 * rounds + 1 THEN AIMessage(<<"diagram done">>)
        ELSE IF i % 2 = 1 THEN AIMessage(<<"tool_call">>)
        ELSE ToolMessage(<<"tool_result">>)]

StructuredResponses ==
    {None} \cup {[diagram |-> d, filename |-> "diagram.md"] : d \in DiagramTexts}

----------------------------------------------------------------------------
(* The orchestrator graph, one turn after another on one thread *)

\* no sub-workflow run is being followed node by node
NoSub == [wf |-> "none"]

PathNodes == {"answer", "research", "rag", "doc_summarize", "diagram_analyze"}

Slots ==
    [research |-> research_response, rag |-> rag_response,
     summarizer |-> summarizer_response, structured |-> structured_response]

\* A thread as k direct-answer turns leave it (k = 0: a new thread); k stays
\* below the point where the k-th turn would have summarized.
PriorMax == SummarizeThreshold \div 2

PriorHistory(k) ==
    [i \in 1..(2 * k) |->
        IF i % 2 = 1 THEN Msg(i, "human", <<"hello">>) ELSE Msg(i, "ai", <<"Hello!">>)]

Init ==
    \E k \in {0, PriorMax} :
        /\ messages = PriorHistory(k)
        /\ nextId = 2 * k + 1
        /\ routing_decision = IF k = 0 THEN <<>> ELSE <<HDR, NL, SP, "answer", SP, NL>>
        /\ next = IF k = 0 THEN "none" ELSE "answer"
        /\ router_response = <<>>
        /\ summary = NoText
        /\ research_response = None
        /\ rag_response = None
        /\ summarizer_response = None
        /\ structured_response = None
        /\ pc = "idle"
        /\ turn = 0
        /\ trace = <<>>
        /\ raised = "none"
        /\ turnHuman = 0
        /\ sub = NoSub
        /\ startSlots = [research |-> None, rag |-> None, summarizer |-> None,
                         structured |-> None]

\* the conditional edge after answer and synthesize
AfterResponse(msgs) == IF should_summarize(msgs) THEN "summarize" ELSE "END"

\* handle_turn: the caller adds one human message and the graph starts at router
StartTurn ==
    /\ pc \in {"idle", "END", "raised"}
    /\ turn < MaxTurns
    /\ \E text \in HumanTexts :
          messages' = add_messages(messages, <<HumanMessage(text)>>, nextId).msgs
    /\ turnHuman' = nextId
    /\ nextId' = nextId + 1
    /\ turn' = turn + 1
    /\ pc' = "router"
    /\ trace' = <<>>
    /\ raised' = "none"
    /\ startSlots' = Slots
    /\ router_response' = <<>>
    /\ UNCHANGED <<sub, summary, routing_decision, research_response, rag_response,
                   summarizer_response, structured_response, next>>

\* a node raised: the turn is aborted and the state stays as the last
\* completed node left it
Abort(node) ==
    /\ pc' = "raised"
    /\ raised' = node
    /\ UNCHANGED <<sub, messages, summary, routing_decision, research_response,
                   rag_response, summarizer_response, structured_response, next,
                   router_response, turn, nextId, trace, turnHuman, startSlots>>

Router ==
    /\ pc = "router"
    /\ \E response \in RouterResponses \cup {GatewayError} :
          LET r == route_message(messages, response) IN
          IF r.raised
          THEN Abort(IF r.error = "GatewayError" THEN "router:gateway" ELSE "router")
          ELSE /\ routing_decision' = IF r.stores THEN r.routing_decision
                                      ELSE routing_decision
               /\ next' = r.next
               /\ router_response' = response
               /\ pc' = route_condition(routing_decision')
               /\ trace' = Append(trace, "router")
               /\ UNCHANGED <<sub, messages, summary, research_response, rag_response,
                              summarizer_response, structured_response, turn, nextId,
                              raised, turnHuman, startSlots>>

\* answer: the update it returns
answer(msgs, response) == IF msgs = <<>> THEN <<>> ELSE <<AIMessage(response)>>

\* the answer node wired to synthesize like the four other path nodes
AnswerThenSynthesize ==
    /\ pc = "answer"
    /\ \E response \in AnswerTexts :
          LET update == answer(messages, response) IN
          /\ messages' = add_messages(messages, update, nextId).msgs
          /\ nextId' = nextId + NewCount(update)
    /\ pc' = "synthesize"
    /\ trace' = Append(trace, "answer")
    /\ UNCHANGED <<sub, summary, routing_decision, research_response, rag_response,
                   summarizer_response, structured_response, next, router_response, turn, raised,
                   turnHuman, startSlots>>

Answer ==
    /\ pc = "answer"
    /\ \E response \in AnswerTexts :
          LET update == answer(messages, response) IN
          /\ messages' = add_messages(messages, update, nextId).msgs
          /\ nextId' = nextId + NewCount(update)
    /\ pc' = AfterResponse(messages')
    /\ trace' = Append(trace, "answer")
    /\ UNCHANGED <<sub, summary, routing_decision, research_response, rag_response,
                   summarizer_response, structured_response, next, router_response, turn, raised,
                   turnHuman, startSlots>>

\* the research node: the compiled Research graph, whose last node
\* combine_results asks the Gateway for the findings
Research ==
    /\ pc = "research"
    /\ \E findings \in FindingsTexts \cup {GatewayError} :
          IF findings = GatewayError
          THEN Abort("research:gateway")
          ELSE /\ research_response' = combine_results(findings)
               /\ pc' = "synthesize"
               /\ trace' = Append(trace, "research")
               /\ UNCHANGED <<sub, messages, summary, routing_decision, rag_response,
                              summarizer_response, structured_response, next,
                              router_response, turn, nextId, raised, turnHuman,
                              startSlots>>

\* the RAG node also resetting the research slot
RagClearsResearch ==
    /\ pc = "rag"
    /\ \E in \in RagInputs : rag_response' = rag_graph(messages, in)
    /\ research_response' = None
    /\ pc' = "synthesize"
    /\ trace' = Append(trace, "rag")
    /\ UNCHANGED <<sub, messages, summary, routing_decision, summarizer_response,
                   structured_response, next, router_response, turn, nextId,
                   raised, turnHuman, startSlots>>

Rag ==
    /\ pc = "rag"
    /\ \E in \in RagInputs : rag_response' = rag_graph(messages, in)
    /\ pc' = "synthesize"
    /\ trace' = Append(trace, "rag")
    /\ UNCHANGED <<sub, messages, summary, routing_decision, research_response,
                   summarizer_response, structured_response, next, router_response, turn, nextId,
                   raised, turnHuman, startSlots>>

DocSummarize ==
    /\ pc = "doc_summarize"
    /\ \E in \in SummarizerInputs :
          summarizer_response' =
              summarizer_graph(messages, research_response, rag_response,
                               summarizer_response, in)
    /\ pc' = "synthesize"
    /\ trace' = Append(trace, "doc_summarize")
    /\ UNCHANGED <<sub, messages, summary, routing_decision, research_response,
                   rag_response, structured_response, next, router_response, turn, nextId, raised,
                   turnHuman, startSlots>>

DiagramAnalyze ==
    /\ pc = "diagram_analyze"
    /\ \E rounds \in 0..MaxToolRounds, sr \in StructuredResponses :
          /\ messages' = add_messages(messages, diagram_messages(rounds), nextId).msgs
          /\ nextId' = nextId + NewCount(diagram_messages(rounds))
          /\ structured_response' = sr
    /\ pc' = "synthesize"
    /\ trace' = Append(trace, "diagram_analyze")
    /\ UNCHANGED <<sub, summary, routing_decision, research_response, rag_response,
                   summarizer_response, next, router_response, turn, raised, turnHuman, startSlots>>

Synthesize ==
    /\ pc = "synthesize"
    /\ LET r == synthesize_node(routing_decision, messages, research_response,
                                rag_response, summarizer_response, structured_response)
       IN  IF r.raised THEN Abort("synthesize")
           ELSE /\ messages' = add_messages(messages, r.messages, nextId).msgs
                /\ nextId' = nextId + NewCount(r.messages)
                /\ pc' = AfterResponse(messages')
                /\ trace' = Append(trace, "synthesize")
                /\ UNCHANGED <<sub, summary, routing_decision, research_response,
                               rag_response, summarizer_response, structured_response,
                               next, router_response, turn, raised, turnHuman,
                               startSlots>>

\* the summarizer handing the turn back to the router, as the "next": "route"
\* it returns would suggest
SummarizeThenRoute ==
    /\ pc = "summarize"
    /\ \E response \in SummaryTexts :
          LET u == summarize_conversation(messages, response) IN
          /\ summary' = u.summary
          /\ messages' = add_messages(messages, u.messages, nextId).msgs
          /\ nextId' = nextId + NewCount(u.messages)
    /\ pc' = "router"
    /\ trace' = Append(trace, "summarize")
    /\ UNCHANGED <<sub, routing_decision, research_response, rag_response,
                   summarizer_response, structured_response, next, router_response,
                   turn, raised, turnHuman, startSlots>>

Summarize ==
    /\ pc = "summarize"
    /\ \E response \in SummaryTexts :
          LET u == summarize_conversation(messages, response) IN
          /\ summary' = u.summary
          /\ messages' = add_messages(messages, u.messages, nextId).msgs
          /\ nextId' = nextId + NewCount(u.messages)
    /\ pc' = "END"
    /\ trace' = Append(trace, "summarize")
    /\ UNCHANGED <<sub, routing_decision, research_response, rag_response,
                   summarizer_response, structured_response, next, router_response, turn, raised,
                   turnHuman, startSlots>>

Next ==
    \/ StartTurn
    \/ Router
    \/ Answer
    \/ Research
    \/ Rag
    \/ DocSummarize
    \/ DiagramAnalyze
    \/ Synthesize
    \/ Summarize

Spec == Init /\ [][Next]_vars

\* a node of the turn is due
TurnUnderWay == pc \in PathNodes \cup {"router", "synthesize", "summarize"}

\* what the step of any node does to pc: the node that was due has run,
\* returned or raised, and the run is at the next node, at END or aborted
Advance ==
    /\ TurnUnderWay
    /\ pc' \in PathNodes \cup {"synthesize", "summarize", "END", "raised"}
    /\ pc' # pc

\* the graph run executes the node that is due as long as one is due
SpecLive == Init /\ [][Next]_vars /\ WF_pc(Advance)

----------------------------------------------------------------------------
(* should_summarize and summarize_conversation on arbitrary message lists *)

FnTypes == {"human", "ai", "system", "tool"}

\* p alternating human/ai messages followed by t messages of any types
FnMessages(p, tail) ==
    [i \in 1..(p + Len(tail)) |->
        IF i <= p THEN Msg(i, IF i % 2 = 1 THEN "human" ELSE "ai", <<"m">>)
        ELSE Msg(i, tail[i - p], <<"m">>)]

InitFn ==
    \E p \in 0..FnPrefixMax, t \in 0..FnTailMax :
      \E tail \in [1..t -> FnTypes] :
        /\ messages = FnMessages(p, tail)
        /\ nextId = p + t + 1
        /\ routing_decision = <<>>
        /\ router_response = <<>>
        /\ next = "none"
        /\ summary = NoText
        /\ research_response = None
        /\ rag_response = None
        /\ summarizer_response = None
        /\ structured_response = None
        /\ pc = "edge"
        /\ turn = 0
        /\ trace = <<>>
        /\ raised = "none"
        /\ turnHuman = 0
        /\ sub = NoSub
        /\ startSlots = [research |-> None, rag |-> None, summarizer |-> None,
                         structured |-> None]

\* the conditional edge evaluated on the list
FnEdge ==
    /\ pc = "edge"
    /\ pc' = AfterResponse(messages)
    /\ UNCHANGED <<sub, messages, summary, routing_decision, research_response,
                   rag_response, summarizer_response, structured_response, next,
                   router_response, turn, nextId, trace, raised, turnHuman,
                   startSlots>>

\* one more turn on the thread: the caller adds a human message; the turn is
\* either answered directly or aborted by a node that raises
FnTurn ==
    /\ pc = "END"
    /\ turn < MaxFnTurns
    /\ messages' = add_messages(messages, <<HumanMessage(<<"hello">>)>>, nextId).msgs
    /\ nextId' = nextId + 1
    /\ turn' = turn + 1
    /\ trace' = Append(trace, "__start__")
    /\ \E answered \in BOOLEAN : pc' = IF answered THEN "answer" ELSE "END"
    /\ UNCHANGED <<sub, summary, routing_decision, research_response, rag_response,
                   summarizer_response, structured_response, next, router_response,
                   raised, turnHuman, startSlots>>

NextFn ==
    \/ FnEdge
    \/ Summarize
    \/ FnTurn
    \/ Answer

SpecFn == InitFn /\ [][NextFn]_vars

----------------------------------------------------------------------------
(* Sub-workflow runs, node by node.  A compiled sub-graph runs in supersteps: *)
(* the tasks of one superstep read the same state, complete in any order,    *)
(* and their writes are applied together, in task order, once the last of    *)
(* them has completed; the nodes the completed ones lead to form the next    *)
(* superstep.                                                                *)

orchestratorVars ==
    <<messages, summary, routing_decision, research_response, rag_response,
      summarizer_response, structured_response, next, router_response, pc, turn,
      nextId, trace, raised, turnHuman, startSlots>>

\* channels of AgentState and of the three sub-workflow state schemas
AgentChannels ==
    {"messages", "summary", "routing_decision", "research_response",
     "rag_response", "summarizer_response", "structured_response"}

Channels(wf) ==
    AgentChannels \cup
      CASE wf = "research" -> {"web_query", "wiki_query", "web_results", "wiki_results"}
        [] wf = "rag" -> {"optimized_query", "original_query", "context", "analysis"}
        [] OTHER -> {"document", "chunks", "summaries", "final_summary"}

\* a sub-graph declared without output=...: its whole state goes back
OutputKeys_whole_state(wf) == Channels(wf)

\* StateGraph(<State>, output=<OutputState>): the keys that cross back
OutputKeys(wf) ==
    CASE wf = "research" -> {"research_response"}
      [] wf = "rag" -> {"rag_response"}
      [] OTHER -> {"summarizer_response"}

SlotVar(wf) ==
    CASE wf = "research" -> research_response
      [] wf = "rag" -> rag_response
      [] OTHER -> summarizer_response

\* the value the orchestrator's state holds for a channel
ParentValue(k) ==
    CASE k = "messages" -> messages
      [] k = "summary" -> summary
      [] k = "routing_decision" -> routing_decision
      [] k = "research_response" -> research_response
      [] k = "rag_response" -> rag_response
      [] k = "summarizer_response" -> summarizer_response
      [] OTHER -> structured_response

ParentHas(k) ==
    CASE k = "messages" -> TRUE
      [] k = "summary" -> summary # NoText
      [] k = "routing_decision" -> routing_decision # <<>>
      [] OTHER -> ParentValue(k) # None

\* the state a sub-graph starts from: the orchestrator's values for the
\* channels they share, and the empty list of the summaries accumulator
SubInput(wf) ==
    LET shared == {k \in AgentChannels : ParentHas(k)}
        own == IF wf = "summarizer" THEN {"summaries"} ELSE {}
    IN  [k \in shared \cup own |-> IF k \in shared THEN ParentValue(k) ELSE <<>>]

Task(node) == <<node, 0>>

\* a plain list channel: the last write wins
summaries_last_value(left, right) == right

\* Annotated[list[str], operator.add]
summaries_reducer(left, right) == left \o right

\* stored messages written back to the messages channel
AsUpdate(msgs) ==
    [i \in 1..Len(msgs) |->
        [op |-> "put", id |-> msgs[i].id, type |-> msgs[i].type,
         content |-> msgs[i].content]]

\* one node's returned dict applied to the state; keys that are no channel
\* of the schema (such as "next") are dropped
ApplyUpdate(wf, state, update) ==
    LET keys == DOMAIN update \cap Channels(wf) IN
    [k \in DOMAIN state \cup keys |->
        IF k \notin keys THEN state[k]
        ELSE IF k = "summaries"
        THEN summaries_reducer(Get(state, "summaries", <<>>), update[k])
        ELSE IF k = "messages"
        THEN add_messages(Get(state, "messages", <<>>), AsUpdate(update[k]), nextId).msgs
        ELSE update[k]]

RECURSIVE ApplyWrites(_, _, _)
ApplyWrites(wf, state, writes) ==
    IF writes = <<>> THEN state
    ELSE ApplyWrites(wf, ApplyUpdate(wf, state, Head(writes).update), Tail(writes))

TaskRank(task) == task[2] + (IF task[1] = "wiki_search" THEN 1 ELSE 0)

InTaskOrder(writes) ==
    SortSeq(writes, LAMBDA a, b : TaskRank(a.task) < TaskRank(b.task))

\* a fan-out that always sends a first branch
distribute_chunks_at_least_one(state) ==
    LET chunks == Get(state, "chunks", <<>>) IN
    {<<"summarize_chunk", i - 1>> : i \in 1..Len(chunks)} \cup {<<"summarize_chunk", 0>>}

\* distribute_chunks: one Send per chunk, none without chunks
distribute_chunks(state) ==
    LET chunks == Get(state, "chunks", <<>>) IN
    {<<"summarize_chunk", i - 1>> : i \in 1..Len(chunks)}

\* the edges out of a node
Edges(wf, node, state) ==
    CASE wf = "research" /\ node = "extract_query" ->
            {Task("web_search"), Task("wiki_search")}
      [] wf = "research" /\ node \in {"web_search", "wiki_search"} -> {Task("combine")}
      [] wf = "summarizer" /\ node = "process_document" -> distribute_chunks(state)
      [] wf = "summarizer" /\ node = "summarize_chunk" -> {Task("combine_summaries")}
      [] wf = "rag" /\ node = "optimize_query" -> {Task("retrieve")}
      [] wf = "rag" /\ node = "retrieve" -> {Task("analyze_context")}
      [] wf = "rag" /\ node = "analyze_context" -> {Task("answer_query")}
      [] OTHER -> {}

NextTasks(wf, completed, state) == UNION {Edges(wf, n, state) : n \in completed}

\* what a node hands back: the dict it returns, the collaborators it called
\* and the text it gave the Gateway, or the exception that left it
NodeReturns(update, calls, prompt) ==
    [raised |-> FALSE, update |-> update, calls |-> calls, prompt |-> prompt]

NodeRaises(calls) == [raised |-> TRUE, update |-> <<>>, calls |-> calls, prompt |-> <<>>]

\* a task completes; with the last task of the superstep the writes are
\* applied and the next superstep is scheduled
Complete(s, task, r) ==
    LET writes2 == Append(s.writes, [task |-> task, update |-> r.update])
        running2 == s.running \ {task}
        common == [s EXCEPT !.done = Append(s.done, task),
                            !.written = Append(s.written,
                                               [task |-> task, keys |-> DOMAIN r.update]),
                            !.calls = s.calls \o r.calls,
                            !.prompt = IF r.prompt = <<>> THEN s.prompt ELSE r.prompt]
    IN  IF running2 # {}
        THEN [common EXCEPT !.running = running2, !.writes = writes2]
        ELSE LET st == ApplyWrites(s.wf, s.state, InTaskOrder(writes2))
                 nxt == NextTasks(s.wf, {writes2[i].task[1] : i \in 1..Len(writes2)}, st)
             IN  [common EXCEPT !.state = st, !.running = nxt, !.writes = <<>>,
                                !.status = IF nxt = {} THEN "END" ELSE "running"]

\* an exception leaves the node: the run of the sub-graph ends with it
Fail(s, task, r) ==
    [s EXCEPT !.status = "raised", !.raised = task[1], !.running = {},
              !.writes = <<>>, !.calls = s.calls \o r.calls]

Step(s, task, r) == IF r.raised THEN Fail(s, task, r) ELSE Complete(s, task, r)

Ready(wf, task) == sub.wf = wf /\ sub.status = "running" /\ task \in sub.running

----------------------------------------------------------------------------
(* Research sub-workflow *)

\* what the external search services answer: hits, or a failed call
SearchOutcomes ==
    {[ok |-> TRUE, hits |-> <<>>],
     [ok |-> TRUE, hits |-> <<[content |-> "page"]>>],
     [ok |-> FALSE, hits |-> <<>>]}

\* SearchQueries as the Gateway's structured output gives them
QueryPairs == [web_query : {NoText, <<"q">>}, wiki_query : {NoText, <<"q">>}]

extract_query(state, response) ==
    IF Get(state, "messages", <<>>) = <<>>
    THEN NodeReturns([web_query |-> NoText, wiki_query |-> NoText], <<>>, <<>>)
    ELSE NodeReturns([web_query |-> response.web_query,
                      wiki_query |-> response.wiki_query],
                     <<"gateway">>, <<>>)

\* "\n\n---\n\n".join of one <Document> per hit
format_results(hits, tag) ==
    IF hits = <<>> THEN NoText
    ELSE join([i \in 1..Len(hits) |-> <<tag, hits[i].content>>], <<"---">>)

\* web_search_node without the early return on an empty query
web_search_node_always_calls(state, outcome) ==
    IF ~outcome.ok THEN NodeRaises(<<"tavily">>)
    ELSE NodeReturns([web_results |-> format_results(outcome.hits, "<Document href>")],
                     <<"tavily">>, <<>>)

\* web_search_node: tavily_search.ainvoke is not guarded, a failed call
\* leaves the node as an exception
web_search_node(state, outcome) ==
    LET query == Get(state, "web_query", NoText) IN
    IF query = NoText THEN NodeReturns([web_results |-> NoText], <<>>, <<>>)
    ELSE IF ~outcome.ok THEN NodeRaises(<<"tavily">>)
    ELSE NodeReturns([web_results |-> format_results(outcome.hits, "<Document href>")],
                     <<"tavily">>, <<>>)

\* the wikipedia_search tool: [] on any failure
wikipedia_search(outcome) == IF outcome.ok THEN outcome.hits ELSE <<>>

wiki_search_node(state, outcome) ==
    LET query == Get(state, "wiki_query", NoText) IN
    IF query = NoText THEN NodeReturns([wiki_results |-> NoText], <<>>, <<>>)
    ELSE NodeReturns(
            [wiki_results |->
                format_results(wikipedia_search(outcome), "<Document Wikipedia>")],
            <<"wikipedia">>, <<>>)

\* the combine node: combine_results of the Research graph on the state
combine_results_node(state, response) ==
    LET synthesis_text ==
            <<"Web Search Results:">> \o Get(state, "web_results", NoText)
                \o <<"Wikipedia Results:">> \o Get(state, "wiki_results", NoText)
    IN  IF response = GatewayError THEN NodeRaises(<<"gateway">>)
        ELSE NodeReturns([research_response |-> combine_results(response)],
                         <<"gateway">>, synthesis_text)

ExtractQuery ==
    /\ Ready("research", Task("extract_query"))
    /\ \E response \in QueryPairs :
          sub' = Step(sub, Task("extract_query"), extract_query(sub.state, response))
    /\ UNCHANGED orchestratorVars

WebSearch ==
    /\ Ready("research", Task("web_search"))
    /\ \E outcome \in SearchOutcomes :
          sub' = Step(sub, Task("web_search"), web_search_node(sub.state, outcome))
    /\ UNCHANGED orchestratorVars

WikiSearch ==
    /\ Ready("research", Task("wiki_search"))
    /\ \E outcome \in SearchOutcomes :
          sub' = Step(sub, Task("wiki_search"), wiki_search_node(sub.state, outcome))
    /\ UNCHANGED orchestratorVars

CombineResults ==
    /\ Ready("research", Task("combine"))
    /\ \E response \in FindingsTexts \cup {GatewayError} :
          sub' = Step(sub, Task("combine"), combine_results_node(sub.state, response))
    /\ UNCHANGED orchestratorVars

----------------------------------------------------------------------------
(* Summarization sub-workflow *)

\* process_document of the Summarization graph on the state
summarizer_process_document(state, in) ==
    LET msgs == Get(state, "messages", <<>>)
        research == Get(state, "research_response", None)
        rag == Get(state, "rag_response", None)
        r == summarizer_process_document_node(msgs, research, rag, in)
        reads == /\ msgs # <<>>
                 /\ research = None
                 /\ rag = None
                 /\ file_match(strip(msgs[Len(msgs)].content))
    IN  NodeReturns([document |-> r.document, chunks |-> r.chunks,
                     summaries |-> <<>>, final_summary |-> r.final_summary],
                    (IF reads THEN <<"read_file">> ELSE <<>>)
                        \o (IF r.document # NoText
                            THEN <<"gateway", "chunk_document">> ELSE <<>>),
                    <<>>)

\* a branch that also writes the final summary
summarize_chunk_node_sets_final(chunk_id) ==
    NodeReturns([summaries |-> <<summarize_chunk(chunk_id)>>,
                 final_summary |-> summarize_chunk(chunk_id)], <<"gateway">>, <<>>)

\* summarize_chunk on the ChunkState its Send carries
summarize_chunk_node(chunk_id) ==
    NodeReturns([summaries |-> <<summarize_chunk(chunk_id)>>], <<"gateway">>, <<>>)

combine_summaries_node(state, response) ==
    LET summaries == Get(state, "summaries", <<>>) IN
    NodeReturns([summarizer_response |-> combine_summaries(summaries, response)],
                IF summaries = <<>> THEN <<>> ELSE <<"gateway">>,
                IF summaries = <<>> THEN <<>> ELSE join(summaries, <<NL, NL>>))

SummarizerProcessDocument ==
    /\ Ready("summarizer", Task("process_document"))
    /\ \E in \in SummarizerInputs :
          sub' = Step(sub, Task("process_document"),
                      summarizer_process_document(sub.state, in))
    /\ UNCHANGED orchestratorVars

SummarizeChunk ==
    /\ sub.wf = "summarizer"
    /\ sub.status = "running"
    /\ \E task \in sub.running :
          /\ task[1] = "summarize_chunk"
          /\ sub' = Step(sub, task, summarize_chunk_node(task[2]))
    /\ UNCHANGED orchestratorVars

CombineSummaries ==
    /\ Ready("summarizer", Task("combine_summaries"))
    /\ \E response \in FinalSummaryTexts :
          sub' = Step(sub, Task("combine_summaries"),
                      combine_summaries_node(sub.state, response))
    /\ UNCHANGED orchestratorVars

----------------------------------------------------------------------------
(* RAG sub-workflow *)

\* is_document_processing: the conditional START edge
is_document_processing(state, is_processing) ==
    IF Get(state, "messages", <<>>) = <<>> THEN "optimize_query"
    ELSE IF is_processing THEN "process_document" ELSE "optimize_query"

\* answers of read_file, the process check and ingest_document
RagIngestInputs ==
    [read_error : BOOLEAN, should_process : BOOLEAN, ingest_ok : BOOLEAN,
     num_chunks : {1, 2}]

rag_process_document(state, in) ==
    LET msgs == Get(state, "messages", <<>>)
        r == rag_process_document_node(msgs, in)
    IN  NodeReturns([rag_response |-> r],
                    IF msgs = <<>> THEN <<>>
                    ELSE (IF file_match(msgs[Len(msgs)].content)
                          THEN <<"read_file">> ELSE <<"gateway">>)
                         \o (IF DOMAIN r.document_status # {"error"}
                             THEN <<"ingest">> ELSE <<>>),
                    <<>>)

\* the latest message itself taken as the inline document
ingest_content_latest(state, in) ==
    LET msgs == Get(state, "messages", <<>>)
        last_message == msgs[Len(msgs)].content
    IN  IF msgs = <<>> THEN NoText
        ELSE IF file_match(last_message)
        THEN IF in.read_error THEN NoText ELSE <<"file content">>
        ELSE IF in.should_process THEN last_message
        ELSE NoText

\* the content process_document_node hands to ingest_document, NoText when
\* it returns before that call
ingest_content(state, in) ==
    LET msgs == Get(state, "messages", <<>>)
        last_message == msgs[Len(msgs)].content
        previous_message == IF Len(msgs) > 1 THEN msgs[Len(msgs) - 1].content ELSE NoText
    IN  IF msgs = <<>> THEN NoText
        ELSE IF file_match(last_message)
        THEN IF in.read_error THEN NoText ELSE <<"file content">>
        ELSE IF in.should_process /\ previous_message # NoText THEN previous_message
        ELSE NoText

optimize_query_node(state, response) ==
    LET msgs == Get(state, "messages", <<>>) IN
    IF msgs = <<>>
    THEN NodeReturns([optimized_query |-> NoText, original_query |-> NoText,
                      next |-> "END"], <<>>, <<>>)
    ELSE NodeReturns([optimized_query |-> response,
                      original_query |-> msgs[Len(msgs)].content,
                      next |-> "retrieve"], <<"gateway">>, <<>>)

\* the retrieve_context tool: one {error, source} entry on any failure
retrieve_context(outcome) ==
    IF outcome.ok THEN outcome.hits
    ELSE <<[error |-> "retrieval failed", source |-> "internal"]>>

retrieve_node(state, outcome) ==
    NodeReturns([context |-> retrieve_context(outcome), next |-> "analyze_context"],
                <<IF outcome.ok THEN "retrieve" ELSE "retrieve:failed">>, <<>>)

\* analyze_context_node on the state: RAGState(**state, analysis=..., next=...)
\* is a call with the state's keys as keyword arguments, a TypeError when
\* the state already holds "analysis" or "next"
analyze_context(state, response) ==
    LET optimized_query == Get(state, "optimized_query", NoText)
        context == Get(state, "context", <<>>)
        short == optimized_query = NoText \/ context = <<>>
        calls == IF short THEN <<>> ELSE <<"gateway">>
        analysis == analyze_context_node(optimized_query, context, response)
    IN  IF {"analysis", "next"} \cap DOMAIN state # {}
        THEN NodeRaises(calls)
        ELSE NodeReturns(
                [k \in DOMAIN state \cup {"analysis", "next"} |->
                    IF k = "analysis" THEN analysis
                    ELSE IF k = "next" THEN (IF short THEN "END" ELSE "answer_query")
                    ELSE state[k]],
                calls, IF short THEN <<>> ELSE <<"analyze">>)

answer_query(state, response) ==
    LET optimized_query == Get(state, "optimized_query", NoText)
        analysis == Get(state, "analysis", NoText)
        short == optimized_query = NoText \/ analysis = NoText
    IN  NodeReturns([rag_response |-> answer_query_node(optimized_query, analysis, response)],
                    IF short THEN <<>> ELSE <<"gateway">>,
                    IF short THEN <<>> ELSE <<"answer">> \o analysis)

RagEntry ==
    /\ Ready("rag", Task("__start__"))
    /\ \E is_processing \in BOOLEAN :
          sub' = [sub EXCEPT
                    !.running = {Task(is_document_processing(sub.state, is_processing))},
                    !.done = Append(sub.done, Task("is_document_processing")),
                    !.calls = IF Get(sub.state, "messages", <<>>) = <<>>
                              THEN sub.calls ELSE Append(sub.calls, "gateway")]
    /\ UNCHANGED orchestratorVars

RagProcessDocument ==
    /\ Ready("rag", Task("process_document"))
    /\ \E in \in RagIngestInputs :
          sub' = [Step(sub, Task("process_document"),
                       rag_process_document(sub.state, in))
                    EXCEPT !.ingested = ingest_content(sub.state, in)]
    /\ UNCHANGED orchestratorVars

OptimizeQuery ==
    /\ Ready("rag", Task("optimize_query"))
    /\ \E response \in {NoText, <<"q">>} :
          sub' = Step(sub, Task("optimize_query"), optimize_query_node(sub.state, response))
    /\ UNCHANGED orchestratorVars

Retrieve ==
    /\ Ready("rag", Task("retrieve"))
    /\ \E outcome \in SearchOutcomes :
          sub' = Step(sub, Task("retrieve"), retrieve_node(sub.state, outcome))
    /\ UNCHANGED orchestratorVars

AnalyzeContext ==
    /\ Ready("rag", Task("analyze_context"))
    /\ \E response \in {<<"relevant">>} :
          sub' = Step(sub, Task("analyze_context"), analyze_context(sub.state, response))
    /\ UNCHANGED orchestratorVars

AnswerQuery ==
    /\ Ready("rag", Task("answer_query"))
    /\ \E response \in AnalysisTexts :
          sub' = Step(sub, Task("answer_query"), answer_query(sub.state, response))
    /\ UNCHANGED orchestratorVars

----------------------------------------------------------------------------
(* One run of a sub-graph as a node of the orchestrator *)

SubWorkflows == {"research", "rag", "summarizer"}

\* the conversation when the node starts
SubMessages ==
    {<<>>,
     <<Msg(1, "human", <<"hello">>)>>,
     <<Msg(1, "human", <<"hello">>), Msg(2, "ai", <<"Hello!">>),
       Msg(3, "human", <<"process", SP, "notes.md">>)>>,
     <<Msg(1, "human", <<"process this: index this: hello world">>)>>,
     <<Msg(1, "human", <<"hello">>), Msg(2, "ai", <<"Hello!">>),
       Msg(3, "human", <<"process this: index this: hello world">>)>>}

StartSub(wf) ==
    [wf |-> wf, state |-> SubInput(wf),
     running |-> {Task(CASE wf = "research" -> "extract_query"
                         [] wf = "rag" -> "__start__"
                         [] OTHER -> "process_document")},
     writes |-> <<>>, done |-> <<>>, written |-> <<>>, calls |-> <<>>,
     prompt |-> <<>>, ingested |-> NoText,
     status |-> "running", raised |-> "none", output |-> <<>>]

InitSub ==
    \E wf \in SubWorkflows, msgs \in SubMessages,
       research \in {None, combine_results(<<"findings">>)},
       rag \in {None, RAGResponse(None, <<"not found">>, "answer_query"),
                 RAGResponse(ingest_document(
                                [content |-> <<"file content">>,
                                 metadata |-> [source |-> "notes.md",
                                               type |-> "documentation",
                                               extension |-> ".md"]],
                                TRUE, 1),
                             NoText, "process_document")},
       summarizer \in {None, combine_summaries(<<summarize_chunk(0)>>,
                                               <<"earlier summary">>)} :
        /\ messages = msgs
        /\ nextId = Len(msgs) + 1
        /\ routing_decision = <<>>
        /\ router_response = <<>>
        /\ next = "none"
        /\ summary = NoText
        /\ research_response = research
        /\ rag_response = rag
        /\ summarizer_response = summarizer
        /\ structured_response = None
        /\ pc = "sub"
        /\ turn = 0
        /\ trace = <<>>
        /\ raised = "none"
        /\ turnHuman = 0
        /\ startSlots = [research |-> research, rag |-> rag, summarizer |-> summarizer,
                         structured |-> None]
        /\ sub = StartSub(wf)

\* the sub-graph has ended: the keys of its output schema cross back and
\* the orchestrator's reducers apply them
SubReturn ==
    /\ sub.wf \in SubWorkflows
    /\ sub.status = "END"
    /\ LET out == [k \in OutputKeys(sub.wf) \cap DOMAIN sub.state |-> sub.state[k]] IN
       /\ sub' = [sub EXCEPT !.status = "returned", !.output = out]
       /\ messages' = IF "messages" \in DOMAIN out
                      THEN add_messages(messages, AsUpdate(out["messages"]), nextId).msgs
                      ELSE messages
       /\ summary' = Get(out, "summary", summary)
       /\ routing_decision' = Get(out, "routing_decision", routing_decision)
       /\ research_response' = Get(out, "research_response", research_response)
       /\ rag_response' = Get(out, "rag_response", rag_response)
       /\ summarizer_response' = Get(out, "summarizer_response", summarizer_response)
       /\ structured_response' = Get(out, "structured_response", structured_response)
    /\ pc' = "synthesize"
    /\ UNCHANGED <<next, router_response, turn, nextId, trace, raised, turnHuman,
                   startSlots>>

\* an exception left a node of the sub-graph: it leaves the orchestrator's
\* node as well
SubRaise ==
    /\ sub.wf \in SubWorkflows
    /\ sub.status = "raised"
    /\ pc = "sub"
    /\ pc' = "raised"
    /\ raised' = sub.wf
    /\ UNCHANGED <<sub, messages, summary, routing_decision, research_response,
                   rag_response, summarizer_response, structured_response, next,
                   router_response, turn, nextId, trace, turnHuman, startSlots>>

NextSub ==
    \/ ExtractQuery
    \/ WebSearch
    \/ WikiSearch
    \/ CombineResults
    \/ SummarizerProcessDocument
    \/ SummarizeChunk
    \/ CombineSummaries
    \/ RagEntry
    \/ RagProcessDocument
    \/ OptimizeQuery
    \/ Retrieve
    \/ AnalyzeContext
    \/ AnswerQuery
    \/ SubReturn
    \/ SubRaise

SpecSub == InitSub /\ [][NextSub]_vars

----------------------------------------------------------------------------
(* Properties *)

InTrace(node) == \E i \in 1..Len(trace) : trace[i] = node

Recognized(text) ==
    selected_route(text).ok /\ selected_route(text).label \in {<<l>> : l \in Labels}

\* the path the five labels stand for, anything else standing for research
ExpectedPath(text) ==
    LET label == selected_route(text).label IN
    CASE label = <<"ANSWER">> -> "answer"
      [] label = <<"RAG">> -> "rag"
      [] label = <<"SUMMARIZE">> -> "doc_summarize"
      [] label = <<"DIAGRAM">> -> "diagram_analyze"
      [] OTHER -> "research"

SlotNames == {"research", "rag", "summarizer", "structured"}

SlotOf(path) ==
    CASE path = "research" -> "research"
      [] path = "rag" -> "rag"
      [] path = "doc_summarize" -> "summarizer"
      [] path = "diagram_analyze" -> "structured"
      [] OTHER -> "none"

\* positions of the assistant messages added since the turn's human message
TurnAssistant == {i \in 1..Len(messages) :
                    messages[i].id > turnHuman /\ messages[i].type = "ai"}

\* C1: whenever the stored routing_decision is malformed or carries a label
\* outside the five, route_condition selects research and the Synthesizer's
\* re-parse of the same text yields RESEARCH.
C1_ReparseYieldsResearch ==
    (routing_decision # <<>> /\ ~Recognized(routing_decision)) =>
        /\ route_condition(routing_decision) = "research"
        /\ synth_route(routing_decision) = <<"RESEARCH">>

\* C2: route_message never raises; on a response without a readable or
\* recognized label it returns next = "research".
C2_RouterNeverRaises ==
    /\ raised # "router"
    /\ (trace # <<>> /\ ~Recognized(router_response)) => next = "research"

\* C3: synthesize_node never raises and leaves exactly one non-empty
\* assistant message for the turn, whatever the route and the slot's shape.
C3_SynthesisExhaustive ==
    /\ raised # "synthesize"
    /\ InTrace("synthesize") =>
          /\ Cardinality(TurnAssistant) = 1
          /\ \A i \in TurnAssistant : messages[i].content # <<>>

IngestionUnresolved ==
    /\ rag_response # None
    /\ rag_response.source = "process_document"
    /\ rag_response.document_status # None
    /\ DOMAIN rag_response.document_status = {"error"}

\* C4: an {error: ...} document_status from the ingestion path goes through
\* synthesize_node without an exception and the turn ends with an assistant
\* message that carries the error's explanation.
C4_UnresolvedIngestionExplained ==
    (InTrace("rag") /\ IngestionUnresolved /\ pc # "synthesize") =>
        /\ raised = "none"
        /\ \E i \in TurnAssistant :
              Contains(messages[i].content, rag_response.document_status.error)

\* C5: when a turn reaches END the last entry of messages is an assistant
\* message produced in this turn, also when history summarization ran.
C5_AssistantMessageLast ==
    pc = "END" =>
        /\ messages # <<>>
        /\ messages[Len(messages)].type = "ai"
        /\ messages[Len(messages)].id > turnHuman

PathsRun == {i \in 1..Len(trace) : trace[i] \in PathNodes}

\* C6: once the router has stored its decision, the turn runs exactly one
\* path node, the one the label of this turn's routing_decision stands for
\* (research for any other label), and never a second one.
C6_ExactlyOnePath ==
    trace # <<>> =>
        /\ routing_decision = router_response
        /\ Cardinality(PathsRun) <= 1
        /\ IF pc \in PathNodes
           THEN PathsRun = {} /\ pc = ExpectedPath(router_response)
           ELSE IF raised = "research:gateway"      \* the path node ran and raised
           THEN PathsRun = {} /\ ExpectedPath(router_response) = "research"
           ELSE \E i \in PathsRun : trace[i] = ExpectedPath(router_response)

C6_Witness ==
    /\ pc = "END"
    /\ \E i \in PathsRun : trace[i] = "diagram_analyze"
    /\ ExpectedPath(routing_decision) = "diagram_analyze"

\* C7 as stated: at the end of every turn at most one response slot is
\* populated, the one of the chosen path, and none after a direct answer.
C7_AtMostOneSlotPopulated ==
    pc = "END" =>
        LET populated == {s \in SlotNames : Slots[s] # None} IN
        /\ Cardinality(populated) <= 1
        /\ populated \subseteq {SlotOf(ExpectedPath(routing_decision))}

\* C7 amended: in every turn the only response slot whose value differs from
\* the one it had when the turn started is the slot of the path chosen by
\* the turn's routing_decision; a direct-answer turn changes none.
C7_OnlyChosenSlotChanges ==
    \A s \in SlotNames :
        Slots[s] # startSlots[s] =>
            /\ trace # <<>>
            /\ s = SlotOf(ExpectedPath(router_response))

C7_Witness ==
    /\ pc = "END"
    /\ InTrace("rag")
    /\ rag_response # startSlots.rag
    /\ research_response # None
    /\ research_response = startSlots.research

\* C8: should_summarize is true exactly when there are more messages than
\* the threshold and the last one is an assistant message.
C8_ShouldSummarizeIff ==
    pc \in {"summarize", "END"} /\ trace = <<>> =>
        (pc = "summarize" <=>
            /\ Len(messages) > SummarizeThreshold
            /\ messages[Len(messages)].type = "ai")

C8_Witness ==
    /\ pc = "summarize"
    /\ trace = <<>>
    /\ Len(messages) = SummarizeThreshold + 1

\* C9: summarize_conversation on more than two messages leaves one new
\* system message with the summary followed by the last two earlier
\* messages, unchanged and in order.
C9_SummaryThenLastTwo ==
    [][(pc = "summarize" /\ pc' = "END" /\ Len(messages) > KeepLast) =>
          /\ Len(messages') = KeepLast + 1
          /\ messages'[1].type = "system"
          /\ messages'[1].content = <<"Previous conversation summary:">> \o summary'
          /\ SubSeq(messages', 2, KeepLast + 1)
                = SubSeq(messages, Len(messages) - 1, Len(messages))]_vars

Ids(msgs) == {msgs[i].id : i \in 1..Len(msgs)}

\* C10: messages always stand in insertion order, and history summarization
\* removes exactly the prefix before the newest human/assistant exchange,
\* which stays as it was.
C10_PrefixPruning ==
    /\ [](\A i, j \in 1..Len(messages) : i < j => messages[i].id < messages[j].id)
    /\ [][(pc = "summarize" /\ pc' = "END") =>
            LET n == Len(messages) IN
            /\ Ids(messages) \ Ids(messages') = Ids(SubSeq(messages, 1, n - 2))
            /\ \A i \in {n - 1, n} : \E j \in 1..Len(messages') : messages'[j] = messages[i]
            /\ messages[n - 1].type = "human"
            /\ messages[n].type = "ai"]_vars

C10_Witness ==
    /\ InTrace("summarize")
    /\ Len(messages) = KeepLast + 1
    /\ messages[1].id = turnHuman
    /\ messages[2].type = "ai"

----------------------------------------------------------------------------
(* Properties of the turn as a whole *)

Count(node) == Cardinality({i \in 1..Len(trace) : trace[i] = node})

\* C11: at the end of every turn, completed or aborted, messages holds no
\* more entries than the summarization threshold, however many turns the
\* thread has seen.
C11_MessagesBounded ==
    pc \in {"END", "raised"} => Len(messages) <= SummarizeThreshold

\* C12: in one turn the router runs at most once and summarize_conversation
\* at most once, and summarize_conversation is followed by END and by
\* nothing else.
C12_SummarizeThenEnd ==
    /\ [](/\ Count("router") <= 1
          /\ Count("summarize") <= 1
          /\ InTrace("summarize") => (trace[Len(trace)] = "summarize" /\ pc = "END"))
    /\ [][pc = "summarize" => pc' = "END"]_vars

C12_Witness ==
    /\ pc = "END"
    /\ trace = <<"router", "research", "synthesize", "summarize">>

\* C15: on a DIAGRAM turn without a structured artifact synthesize_node
\* returns normally, and afterwards the failure message is the only message
\* after the last human message, everything up to that human message being
\* unchanged.
C15_DiagramFailureReplacesTail ==
    [][(/\ pc = "synthesize"
        /\ synth_route(routing_decision) = <<"DIAGRAM">>
        /\ structured_response = None
        /\ pc' # "synthesize")
       => LET h == LastHumanIdx(messages) IN
          /\ pc' \in {"END", "summarize"}
          /\ Len(messages') = h + 1
          /\ SubSeq(messages', 1, h) = SubSeq(messages, 1, h)
          /\ messages'[h + 1].type = "ai"
          /\ messages'[h + 1].content = DiagramFailureMessage.content]_vars

C15_Witness ==
    /\ InTrace("diagram_analyze")
    /\ InTrace("synthesize")
    /\ structured_response = None
    /\ Len(messages) >= 2
    /\ messages[Len(messages)].content = DiagramFailureMessage.content
    /\ messages[Len(messages) - 1].id = turnHuman
    /\ messages[Len(messages)].id > turnHuman + 3

\* C17: no turn is aborted by a failing collaborator call; the node that
\* issued the call absorbs the failure and the turn goes on to END.
C17_CollaboratorFailureAbsorbed ==
    raised \notin {"router:gateway", "research:gateway"}

----------------------------------------------------------------------------
(* The two short-circuiting RAG nodes applied to a state, one application
   after the other, each result merged into the state as the graph does *)

MaxApplications == 2

\* the RAG state a node is handed: a channel never written is no key of it
NodeStates ==
    {[k \in {"messages"} \cup (IF oq.has THEN {"optimized_query"} ELSE {})
                         \cup (IF ctx.has THEN {"context"} ELSE {}) |->
         CASE k = "messages" -> msgs
           [] k = "optimized_query" -> oq.v
           [] OTHER -> ctx.v] :
       msgs \in SubMessages \ {<<>>},
       oq \in {[has |-> FALSE, v |-> NoText]} \cup [has : {TRUE}, v : {NoText, <<"q">>}],
       ctx \in {[has |-> FALSE, v |-> <<>>]}
                 \cup {[has |-> TRUE, v |-> retrieve_context(o)] : o \in SearchOutcomes}}

NodeRun(state) == [wf |-> "node", state |-> state, results |-> <<>>]

\* one application: what the node was given, what came out, and the state
\* after the returned update (none when the node raised)
Applied(s, node, short, r, value) ==
    [s EXCEPT !.state = IF r.raised THEN s.state ELSE ApplyUpdate("rag", s.state, r.update),
              !.results = Append(s.results,
                                 [node |-> node, short |-> short, raised |-> r.raised,
                                  calls |-> r.calls, value |-> value])]

InitNode ==
    \E state \in NodeStates :
        /\ messages = state["messages"]
        /\ nextId = Len(state["messages"]) + 1
        /\ routing_decision = <<>>
        /\ router_response = <<>>
        /\ next = "none"
        /\ summary = NoText
        /\ research_response = None
        /\ rag_response = None
        /\ summarizer_response = None
        /\ structured_response = None
        /\ pc = "node"
        /\ turn = 0
        /\ trace = <<>>
        /\ raised = "none"
        /\ turnHuman = 0
        /\ startSlots = [research |-> None, rag |-> None, summarizer |-> None,
                         structured |-> None]
        /\ sub = NodeRun(state)

ApplyAnalyzeContext ==
    /\ sub.wf = "node"
    /\ Len(sub.results) < MaxApplications
    /\ \E response \in {<<"relevant">>} :
          LET r == analyze_context(sub.state, response)
              short == \/ Get(sub.state, "optimized_query", NoText) = NoText
                       \/ Get(sub.state, "context", <<>>) = <<>>
          IN  sub' = Applied(sub, "analyze_context", short, r,
                             IF r.raised THEN NoText ELSE r.update["analysis"])
    /\ UNCHANGED orchestratorVars

ApplyAnswerQuery ==
    /\ sub.wf = "node"
    /\ Len(sub.results) < MaxApplications
    /\ \E response \in AnalysisTexts :
          LET r == answer_query(sub.state, response)
              short == \/ Get(sub.state, "optimized_query", NoText) = NoText
                       \/ Get(sub.state, "analysis", NoText) = NoText
          IN  sub' = Applied(sub, "answer_query", short, r,
                             r.update["rag_response"].rag_analysis)
    /\ UNCHANGED orchestratorVars

NextNode ==
    \/ ApplyAnalyzeContext
    \/ ApplyAnswerQuery

SpecNode == InitNode /\ [][NextNode]_vars

----------------------------------------------------------------------------
(* Properties of the sub-workflow runs *)

Done(node) == \E i \in 1..Len(sub.done) : sub.done[i][1] = node

DoneCount(node) == Cardinality({i \in 1..Len(sub.done) : sub.done[i][1] = node})

Scheduled(node) == \E t \in sub.running : t[1] = node

Ended == sub.status \in {"END", "returned"}

\* C13: for a document of N >= 1 chunks, combine_summaries runs on exactly N
\* summaries in which every label [Chunk i], i in 0..N-1, occurs exactly
\* once, in whatever order the branches completed, and reports them all.
C13_FanOutComplete ==
    (/\ sub.wf = "summarizer"
     /\ Scheduled("combine_summaries") \/ Done("combine_summaries"))
    => LET N == Len(sub.state["chunks"])
           sums == sub.state["summaries"]
       IN  /\ N >= 1
           /\ Len(sums) = N
           /\ \A i \in 0..(N - 1) :
                 Cardinality({j \in 1..Len(sums) :
                                sums[j][1] = "[Chunk" /\ sums[j][2] = ToString(i)}) = 1
           /\ Done("combine_summaries") =>
                 /\ sub.state["summarizer_response"].chunk_summaries = sums
                 /\ sub.state["summarizer_response"].num_chunks = N

C13_Witness ==
    /\ sub.wf = "summarizer"
    /\ sub.status = "returned"
    /\ Len(sub.done) = 4
    /\ sub.done[2] = <<"summarize_chunk", 1>>
    /\ sub.done[3] = <<"summarize_chunk", 0>>
    /\ summarizer_response # None
    /\ summarizer_response.num_chunks = 2

\* C14: a join node starts only when every branch of its fan-out has
\* completed, and it has run exactly once when the sub-workflow run ends.
C14_JoinIsBarrier ==
    /\ (sub.wf = "research" /\ (Scheduled("combine") \/ Done("combine"))) =>
          Done("web_search") /\ Done("wiki_search")
    /\ (sub.wf = "summarizer"
            /\ (Scheduled("combine_summaries") \/ Done("combine_summaries"))) =>
          \A i \in 1..Len(sub.state["chunks"]) :
              \E k \in 1..Len(sub.done) : sub.done[k] = <<"summarize_chunk", i - 1>>
    /\ (sub.wf = "research" /\ Ended) => DoneCount("combine") = 1
    /\ (sub.wf = "summarizer" /\ Ended) => DoneCount("combine_summaries") = 1

\* C16: a search collaborator that fails or finds nothing makes its branch
\* contribute an empty result; no failure leaves a search node, combine
\* runs, and the run ends with a {research_findings, source: researcher}
\* record.
C16_SearchFailureTolerated ==
    sub.wf = "research" =>
        /\ sub.raised \notin {"web_search", "wiki_search"}
        /\ Ended =>
              /\ Done("combine")
              /\ "research_response" \in DOMAIN sub.state
              /\ sub.state["research_response"].source = "researcher"

\* C18: a RAG run that ends leaves one rag_response in which exactly one of
\* document_status and rag_analysis is populated: document_status with
\* source process_document after the ingestion path, rag_analysis with
\* source answer_query after the query path.
C18_ExactlyOneRagField ==
    (sub.wf = "rag" /\ Ended) =>
        /\ "rag_response" \in DOMAIN sub.state
        /\ LET r == sub.state["rag_response"] IN
           /\ DOMAIN r = {"document_status", "rag_analysis", "source"}
           /\ Done("process_document") =>
                 /\ r.source = "process_document"
                 /\ r.document_status # None
                 /\ r.rag_analysis = NoText
           /\ ~Done("process_document") =>
                 /\ Done("answer_query")
                 /\ r.source = "answer_query"
                 /\ r.document_status = None
                 /\ r.rag_analysis # NoText

C18_Witness ==
    /\ sub.wf = "rag"
    /\ sub.status = "returned"
    /\ Done("answer_query")
    /\ "optimized_query" \in DOMAIN sub.state
    /\ sub.state["optimized_query"] = NoText
    /\ rag_response.rag_analysis = <<"No analysis to generate answer from">>

\* C20: a sub-workflow run changes nothing in the orchestrator's state but
\* its own response slot, and the record that crosses back to the
\* orchestrator holds no other key, in particular none of the scratch
\* fields.
C20_OnlyOwnSlotCrosses ==
    [][sub.wf \in SubWorkflows =>
        /\ messages' = messages
        /\ summary' = summary
        /\ routing_decision' = routing_decision
        /\ structured_response' = structured_response
        /\ sub.wf # "research" => research_response' = research_response
        /\ sub.wf # "rag" => rag_response' = rag_response
        /\ sub.wf # "summarizer" => summarizer_response' = summarizer_response
        /\ sub.status # "END" => SlotVar(sub.wf)' = SlotVar(sub.wf)
        /\ sub'.status = "returned" =>
              DOMAIN sub'.output \subseteq
                  {CASE sub.wf = "research" -> "research_response"
                     [] sub.wf = "rag" -> "rag_response"
                     [] OTHER -> "summarizer_response"}]_vars

C20_Witness ==
    /\ sub.wf = "rag"
    /\ sub.status = "returned"
    /\ {"optimized_query", "context", "analysis"} \subseteq DOMAIN sub.state
    /\ DOMAIN sub.output = {"rag_response"}
    /\ rag_response # startSlots.rag
    /\ research_response # None
    /\ research_response = startSlots.research
    /\ messages # <<>>

\* C19: analyze_context_node given an empty context or an empty optimized
\* query sets analysis to the text No context to analyze without a Gateway
\* call; answer_query_node given no query or no analysis returns the
\* rag_analysis No analysis to generate answer from without a Gateway call;
\* a second application of the short-circuit gives the same result.
C19_ShortCircuitsIdempotent ==
    sub.wf = "node" =>
        \A i \in 1..Len(sub.results) :
            LET a == sub.results[i] IN
            a.short =>
                /\ ~a.raised
                /\ a.calls = <<>>
                /\ a.value = IF a.node = "analyze_context"
                             THEN <<"No context to analyze">>
                             ELSE <<"No analysis to generate answer from">>

----------------------------------------------------------------------------
(* Properties of the turn: termination and node order *)

\* C21: when every collaborator call returns, a turn that has entered at
\* router reaches END.
C21_TurnReachesEnd ==
    (pc = "router") ~> (pc = "END" \/ raised \in {"router:gateway", "research:gateway"})

IsPrefix(s, t) == Len(s) <= Len(t) /\ SubSeq(t, 1, Len(s)) = s

\* the node sequences of a completed turn
TurnOrders ==
    {<<"router", "answer">>, <<"router", "answer", "summarize">>}
        \cup {<<"router", p, "synthesize">> : p \in PathNodes \ {"answer"}}
        \cup {<<"router", p, "synthesize", "summarize">> : p \in PathNodes \ {"answer"}}

\* C22: the nodes of a turn run in the order router, path node, synthesize
\* (once after research, rag, doc_summarize and diagram_analyze, never
\* after answer), then summarize or END; synthesize is due only when the
\* path node has completed, and answer appends its assistant message itself.
C22_NodeOrder ==
    /\ [](/\ \E o \in TurnOrders : IsPrefix(trace, o)
          /\ pc = "END" => trace \in TurnOrders
          /\ pc = "synthesize" =>
                (Len(trace) = 2 /\ trace[2] \in PathNodes \ {"answer"})
          /\ InTrace("answer") => ~InTrace("synthesize"))
    /\ [][(pc = "answer" /\ pc' # "answer") =>
            /\ pc' \in {"summarize", "END"}
            /\ Len(messages') = Len(messages) + 1
            /\ SubSeq(messages', 1, Len(messages)) = messages
            /\ messages'[Len(messages')].type = "ai"
            /\ messages'[Len(messages')].content \in AnswerTexts]_vars

C22_Witness ==
    /\ pc = "END"
    /\ trace = <<"router", "doc_summarize", "synthesize">>
    /\ messages[Len(messages)].type = "ai"

----------------------------------------------------------------------------
(* Properties of the nodes inside the sub-workflows *)

Called(c) == \E i \in 1..Len(sub.calls) : sub.calls[i] = c

CallCount(c) == Cardinality({i \in 1..Len(sub.calls) : sub.calls[i] = c})

LastContent == messages[Len(messages)].content

C24_IngestOnlyResolved ==
    (sub.wf = "rag" /\ Done("process_document")) =>
        LET ds == sub.state["rag_response"].document_status IN
        /\ sub.raised = "none"
        /\ ds # None
        /\ Called("ingest") <=> sub.ingested # NoText
        /\ Called("ingest") <=> "status" \in DOMAIN ds
        /\ ~Called("ingest") =>
              /\ DOMAIN ds = {"error"}
              /\ ds.error \in {<<"Could not read file">>,
                               <<"No valid file or content found to process">>}
        /\ file_match(LastContent) =>
              /\ Called("read_file")
              /\ CallCount("gateway") = 1
              /\ sub.ingested \in {NoText, <<"file content">>}
              /\ ("status" \in DOMAIN ds /\ ds.status = "success") =>
                    ds.metadata.type = "documentation"
              /\ DOMAIN ds = {"error"} => ds.error = <<"Could not read file">>
        /\ ~file_match(LastContent) =>
              /\ ~Called("read_file")
              /\ CallCount("gateway") = 2
              /\ Len(messages) = 1 =>
                    ds = [error |-> <<"No valid file or content found to process">>]

C24_Witness ==
    /\ sub.wf = "rag"
    /\ sub.status = "returned"
    /\ Len(messages) = 3
    /\ file_match(LastContent)
    /\ sub.calls = <<"gateway", "read_file", "ingest">>
    /\ rag_response.document_status.status = "success"
    /\ rag_response.document_status.metadata.type = "documentation"

\* C25 as stated: an inline processing request without a filename has its
\* own text ingested as an inline chat document, and the confirmation names
\* inline, chat and the chunk count.
C25_InlineRequestIngested ==
    (/\ sub.wf = "rag"
     /\ Done("process_document")
     /\ LastContent = <<"process this: index this: hello world">>)
    => /\ Called("ingest")
       /\ sub.ingested = LastContent

\* C25: without a filename in the latest message the document is never the
\* latest message itself. ingest is called only when a preceding message
\* exists, with that message's text tagged type inline and source chat
\* (research_results when the text mentions research); when ingest
\* succeeds the confirmation names that source, the type inline and the
\* chunk count ingest returned; without a preceding message the node
\* returns the error status and ingest is not called.
C25_PrecedingMessageIngested ==
    (/\ sub.wf = "rag"
     /\ Done("process_document")
     /\ ~file_match(LastContent))
    => LET ds == sub.state["rag_response"].document_status IN
       /\ Len(messages) = 1 => ~Called("ingest")
       /\ Called("ingest") =>
             /\ Len(messages) > 1
             /\ sub.ingested = messages[Len(messages) - 1].content
             /\ sub.ingested # LastContent
       /\ ("status" \in DOMAIN ds /\ ds.status = "success") =>
             LET m == synth_rag(sub.state["rag_response"]) IN
             /\ ds.metadata.type = "inline"
             /\ ds.metadata.source =
                   IF mentions_research(sub.ingested) THEN "research_results" ELSE "chat"
             /\ ~m.raised
             /\ m.messages[1].content =
                   <<"Successfully processed document:", ds.metadata.source,
                     "- Number of chunks:", ToString(ds.num_chunks),
                     "- Document type:", "inline">>

C25_Witness ==
    /\ sub.wf = "rag"
    /\ sub.status = "returned"
    /\ Len(messages) = 3
    /\ LastContent = <<"process this: index this: hello world">>
    /\ sub.ingested = <<"Hello!">>
    /\ rag_response.document_status.status = "success"
    /\ rag_response.document_status.num_chunks = 2
    /\ rag_response.document_status.metadata.source = "chat"

\* C26: when the retrieval collaborator fails, retrieve leaves an empty
\* context, analyze_context takes its empty-context short-circuit and no
\* Gateway analysis call is made over the failed retrieval.
C26_RetrievalFailureEmptyContext ==
    (sub.wf = "rag" /\ Called("retrieve:failed")) =>
        /\ sub.state["context"] = <<>>
        /\ Done("analyze_context") =>
              /\ sub.state["analysis"] = <<"No context to analyze">>
              /\ sub.prompt = <<>>

\* C27: a search branch whose query is empty returns an empty result
\* without calling its search collaborator; with an empty message list
\* neither collaborator is called, and combine still runs.
C27_EmptyQueryNoSearch ==
    sub.wf = "research" =>
        /\ (Done("web_search") /\ sub.state["web_query"] = NoText) =>
              /\ ~Called("tavily")
              /\ sub.raised # "web_search"
              /\ "web_results" \in DOMAIN sub.state => sub.state["web_results"] = NoText
        /\ (Done("wiki_search") /\ sub.state["wiki_query"] = NoText) =>
              /\ ~Called("wikipedia")
              /\ "wiki_results" \in DOMAIN sub.state => sub.state["wiki_results"] = NoText
        /\ messages = <<>> =>
              /\ ~Called("tavily") /\ ~Called("wikipedia")
              /\ Done("extract_query") =>
                    sub.state["web_query"] = NoText /\ sub.state["wiki_query"] = NoText
              /\ sub.raised \in {"none", "combine"}
              /\ (Done("web_search") /\ Done("wiki_search")) =>
                    \/ Scheduled("combine")
                    \/ Done("combine")
                    \/ sub.raised = "combine"
              /\ Ended => Done("combine")

C27_Witness ==
    /\ sub.wf = "research"
    /\ messages = <<>>
    /\ sub.status = "returned"
    /\ sub.done = <<Task("extract_query"), Task("wiki_search"), Task("web_search"),
                    Task("combine")>>
    /\ sub.calls = <<"gateway">>
    /\ research_response # None

FanOut(task) ==
    CASE task[1] \in {"web_search", "wiki_search"} -> "search"
      [] task[1] = "summarize_chunk" -> "chunks"
      [] OTHER -> "none"

\* C28: whatever the order in which concurrent branches complete, two
\* branches of one fan-out write no common field but the summaries
\* accumulator: web_search writes web_results only, wiki_search
\* wiki_results only, each summarize_chunk summaries only, and while the
\* search branches run neither result is in the state they read.
C28_BranchWritesDisjoint ==
    sub.wf \in SubWorkflows =>
        /\ \A i \in 1..Len(sub.written) :
              LET w == sub.written[i] IN
              /\ w.task[1] = "web_search" => w.keys = {"web_results"}
              /\ w.task[1] = "wiki_search" => w.keys = {"wiki_results"}
              /\ w.task[1] = "summarize_chunk" => w.keys = {"summaries"}
              /\ \A j \in 1..Len(sub.written) :
                    (/\ i # j
                     /\ FanOut(w.task) # "none"
                     /\ FanOut(w.task) = FanOut(sub.written[j].task))
                    => w.keys \cap sub.written[j].keys \subseteq {"summaries"}
        /\ (Scheduled("web_search") \/ Scheduled("wiki_search")) =>
              {"web_results", "wiki_results"} \cap DOMAIN sub.state = {}

C28_Witness ==
    /\ sub.wf = "research"
    /\ sub.status = "returned"
    /\ sub.done[2] = Task("wiki_search")
    /\ sub.done[3] = Task("web_search")
    /\ sub.state["web_results"] # NoText
    /\ sub.state["wiki_results"] # NoText

\* C29: a Summarization run that yields no chunk summaries still executes
\* combine_summaries and ends with a summarizer_response holding the
\* placeholder summary and num_chunks = 0.
C29_NoSummariesStillCombined ==
    (sub.wf = "summarizer" /\ Ended /\ sub.state["summaries"] = <<>>) =>
        /\ Done("combine_summaries")
        /\ "summarizer_response" \in DOMAIN sub.state
        /\ sub.state["summarizer_response"].num_chunks = 0
        /\ sub.state["summarizer_response"].final_summary = <<"No summaries to combine">>

\* C30: a resolution failure in the Summarization sub-workflow (no
\* messages, unreadable file, empty document, chunking error) ends
\* process_document with an error text in final_summary and empty chunks
\* and summaries, starts no summarize_chunk branch, makes no chunk-summary
\* Gateway call and raises nothing.
C30_ResolutionFailureExplicit ==
    (sub.wf = "summarizer" /\ Done("process_document")) =>
        LET failed == sub.state["chunks"] = <<>> IN
        /\ sub.raised = "none"
        /\ failed <=> sub.state["final_summary"] # NoText
        /\ messages = <<>> => sub.state["final_summary"] = <<"Error: No document provided">>
        /\ failed =>
              /\ sub.state["final_summary"] \in
                    {<<"Error: No document provided">>, <<"Error reading file:">>,
                     <<"Error: No content to summarize">>, <<"Error chunking document:">>}
              /\ sub.state["summaries"] = <<>>
              /\ ~Scheduled("summarize_chunk")
              /\ ~Done("summarize_chunk")
              /\ Ended
              /\ sub.done = <<Task("process_document")>>
              /\ CallCount("gateway") =
                    IF sub.state["final_summary"] = <<"Error chunking document:">>
                    THEN 1 ELSE 0

C30_Witness ==
    /\ sub.wf = "summarizer"
    /\ sub.status = "returned"
    /\ sub.state["final_summary"] = <<"Error reading file:">>
    /\ sub.calls = <<"read_file">>
    /\ sub.state["chunks"] = <<>>

\* C31: the Summarization sub-workflow resolves its document by strict
\* priority.  On a thread with a latest message, once process_document has
\* run: a populated research_response supplies the document (its findings);
\* else a populated rag_response supplies it (its analysis); else a file named
\* in the latest message is read and supplies it; else the document is the
\* latest message's text.  The file is read only when both slots are absent.
C31_ResolutionPriority ==
    (sub.wf = "summarizer" /\ Done("process_document") /\ messages # <<>>) =>
        LET last_message == strip(messages[Len(messages)].content)
            document == sub.state["document"]
        IN  /\ research_response # None =>
                  document = Get(research_response, "research_findings", NoText)
            /\ (research_response = None /\ rag_response # None) =>
                  document = Get(rag_response, "rag_analysis", NoText)
            /\ (research_response = None /\ rag_response = None
                    /\ file_match(last_message)) =>
                  /\ Called("read_file")
                  /\ document \in {NoText, <<"file content">>}
            /\ (research_response = None /\ rag_response = None
                    /\ ~file_match(last_message)) =>
                  document = last_message
            /\ Called("read_file") =>
                  (research_response = None /\ rag_response = None)

\* both slots populated and a file named in the latest message: the research
\* findings are the document and the file was not read
C31_Witness ==
    /\ sub.wf = "summarizer"
    /\ sub.status = "returned"
    /\ startSlots.research # None
    /\ startSlots.rag # None
    /\ messages # <<>>
    /\ file_match(strip(messages[Len(messages)].content))
    /\ sub.state["document"] = startSlots.research["research_findings"]
    /\ ~Called("read_file")

\* C32: the response record that synthesize_node turns into the assistant
\* message of a turn was written by the sub-workflow run of that turn.  When
\* a run has returned and synthesize_node, applied to the state it left with
\* the label of its path, reports a response record (anything but the generic
\* fallback), a node of that run has written the path's slot; a record an
\* earlier turn left in the slot is never the one reported.
C32_ReportedRecordWrittenThisTurn ==
    (sub.status = "returned" /\ messages # <<>>) =>
        LET label == CASE sub.wf = "research" -> "RESEARCH"
                       [] sub.wf = "rag" -> "RAG"
                       [] OTHER -> "SUMMARIZE"
            r == synthesize_node(WellFormed(label), messages, research_response,
                                 rag_response, summarizer_response,
                                 structured_response)
        IN  (~r.raised /\ r.messages # <<FallbackMessage>>) =>
                \E i \in 1..Len(sub.written) :
                    OutputKeys(sub.wf) \subseteq sub.written[i].keys

\* C33: the three places that read the routing decision agree.  When
\* route_message has returned, the next value it returned is the node
\* route_condition selects from the routing_decision it stored; and when the
\* selected path has run and its slot is populated, the message synthesize_node
\* appends is made from that slot, not the generic fallback message.
C33_RoutingSitesAgree ==
    /\ (trace = <<"router">> /\ pc \in PathNodes) =>
          /\ next = pc
          /\ pc = route_condition(routing_decision)
    /\ (Len(trace) = 3 /\ trace[1] = "router" /\ trace[3] = "synthesize"
            /\ SlotOf(trace[2]) \in SlotNames
            /\ Slots[SlotOf(trace[2])] # None) =>
          LastContent # FallbackMessage.content

\* C34: at the end of every summarizing turn, however many summarizations
\* the thread has been through, messages holds exactly one "Previous
\* conversation summary" system message, the one this turn added (no earlier
\* summary message is left), and summary is the text that message carries.
SummaryMessages ==
    {i \in 1..Len(messages) :
        /\ messages[i].type = "system"
        /\ IsPrefix(<<"Previous conversation summary:">>, messages[i].content)}

C34_OneSummaryMessage ==
    (pc = "END" /\ trace # <<>> /\ trace[Len(trace)] = "summarize") =>
        /\ Cardinality(SummaryMessages) = 1
        /\ \A i \in SummaryMessages :
              /\ messages[i].id = nextId - 1
              /\ messages[i].content = <<"Previous conversation summary:">> \o summary

\* the end of the second summarizing turn of a thread
C34_Witness ==
    /\ pc = "END"
    /\ Count("summarize") = 2
    /\ trace[Len(trace)] = "summarize"
    /\ Cardinality(SummaryMessages) = 1

\* C35: on a DIAGRAM turn whose diagram loop left a structured diagram
\* artifact, the synthesize step ends with exactly one assistant message (the
\* diagram report) after the last human message: the tool-call and tool-result
\* messages of the loop are gone and everything up to and including that
\* human message is unchanged.
C35_DiagramReportReplacesTail ==
    [][(/\ pc = "synthesize"
        /\ synth_route(routing_decision) = <<"DIAGRAM">>
        /\ structured_response # None
        /\ pc' # "synthesize")
       => LET h == LastHumanIdx(messages) IN
          /\ pc' \in {"END", "summarize"}
          /\ Len(messages') = h + 1
          /\ SubSeq(messages', 1, h) = SubSeq(messages, 1, h)
          /\ messages'[h + 1].type = "ai"
          /\ IsPrefix(<<"The Mermaid.js diagram has been generated and saved to:",
                        structured_response.filename>>,
                      messages'[h + 1].content)]_vars

\* C36: in a SUMMARIZE turn whose latest message is a human message with
\* non-empty text (and names no file), process_document resolves a non-empty
\* document and does not end with "Error: No content to summarize", whatever
\* research_response and rag_response hold from earlier turns.
C36_LatestTextAlwaysResolves ==
    (/\ sub.wf = "summarizer"
     /\ Done("process_document")
     /\ messages # <<>>
     /\ messages[Len(messages)].type = "human"
     /\ strip(messages[Len(messages)].content) # NoText
     /\ ~file_match(strip(messages[Len(messages)].content))) =>
        /\ sub.state["document"] # NoText
        /\ sub.state["final_summary"] # <<"Error: No content to summarize">>

====
